---- MODULE Spec2Model ----
(***************************************************************************)
(* Model of kythe/go/services/filetree/filetree.go: the in-memory file     *)
(* tree (Map), its population from a graphstore scan, the local queries    *)
(* Dir and CorporaRoots, and the web client / HTTP handlers that forward   *)
(* the same two queries to a remote instance.                              *)
(*                                                                         *)
(* Strings that the code takes apart (paths) are sequences of one-character*)
(* strings, so that filepath.Join, filepath.Clean and filepath.Dir are     *)
(* computed character by character.  Strings the code only compares        *)
(* (corpus, root, fact names) are TLA+ strings.                            *)
(***************************************************************************)
EXTENDS Integers, Sequences, FiniteSets, TLC

VARIABLES
    M,          \* Map.M: corpus -> root -> dirPath -> FileDirectory
    inserted,   \* history: the set of VNames AddFile was called with
    nadds,      \* history: the number of AddFile calls made so far
    op,         \* the operation that ran last
    arg,        \* its argument: a VName for AddFile, (corpus, root, path) for Dir
    dirRet,     \* the *FileDirectory it returned ({} is nil, {d} points to d)
    crRet,      \* the *CorpusRoots it returned ({} is nil, {cr} points to cr)
    err,        \* the error it returned
    calls,      \* the number of web.Call requests it issued
    status,     \* the HTTP status the handler answered with (0: no request)
    scanned,    \* Populate: the entries gs.Scan delivered to the callback so far
    total,      \* Populate: the local counter total
    pc,         \* Populate: "idle", "scanning", "done" or "failed"
    scanErr,    \* Populate: the error gs.Scan returned
    http,       \* handlers: the last request served and the response to it
    walk        \* ensureDir step by step: the AddFile under way and its frames

vars == <<M, inserted, nadds, op, arg, dirRet, crRet, err, calls, status,
          scanned, total, pc, scanErr, http, walk>>

----------------------------------------------------------------------------
(* Bounds and input sets *)

\* AddFile calls in one behaviour of Spec
MaxAdds == 2

\* entries one gs.Scan delivers in one behaviour of SpecPopulate
MaxScan == 2

Corpora == {"c1", "c2"}
Roots == {"", "r1"}

\* VName.Path values given to AddFile: a bare path two levels deep, a rooted
\* one three levels deep that shares its first directory, one that
\* filepath.Join has to clean of a ".." and that lies in "/", and the empty
\* path
Paths ==
    { <<"a", "/", "b">>,
      <<"/", "a", "/", "b", "/", "c">>,
      <<"b", "/", ".", ".", "/", "c">>,
      <<>> }

\* path arguments given to Dir: normalized ones, bare ones, and one that
\* no insertion creates
QueryPaths ==
    { <<"/">>,
      <<"a">>,
      <<"/", "a">>,
      <<"/", "a", "/", "b">>,
      <<"/", "b">> }

\* spb.VName, reduced to the three fields the file tree reads
VNames == [Corpus : Corpora, Root : Roots, Path : Paths]

----------------------------------------------------------------------------
(* path/filepath on sequences of characters *)

Slash == <<"/">>
Dot == <<".">>
DotDot == <<".", ".">>

\* the index of the last "/" of s, 0 when there is none
RECURSIVE LastSlash(_)
LastSlash(s) ==
    IF s = <<>> THEN 0
    ELSE IF s[Len(s)] = "/" THEN Len(s)
    ELSE LastSlash(SubSeq(s, 1, Len(s) - 1))

\* the index of the first "/" of s, Len(s) + 1 when there is none
RECURSIVE FirstSlash(_)
FirstSlash(s) ==
    IF s = <<>> THEN 1
    ELSE IF s[1] = "/" THEN 1
    ELSE 1 + FirstSlash(Tail(s))

\* the elements of s between its "/" separators (strings.Split(s, "/"))
RECURSIVE Split(_)
Split(s) ==
    LET i == FirstSlash(s)
    IN  IF i > Len(s) THEN <<s>>
        ELSE <<SubSeq(s, 1, i - 1)>> \o Split(SubSeq(s, i + 1, Len(s)))

\* filepath.Clean's pass over the elements: empty and "." elements are
\* dropped, ".." removes the element before it, a ".." that would climb
\* above the root of a rooted path is dropped, and kept on a relative one
RECURSIVE CleanElems(_, _, _)
CleanElems(elems, out, rooted) ==
    IF elems = <<>> THEN out
    ELSE LET e == Head(elems)
             rest == Tail(elems)
         IN  IF e = <<>> \/ e = Dot THEN CleanElems(rest, out, rooted)
             ELSE IF e = DotDot
                  THEN IF out # <<>> /\ out[Len(out)] # DotDot
                       THEN CleanElems(rest, SubSeq(out, 1, Len(out) - 1), rooted)
                       ELSE IF rooted THEN CleanElems(rest, out, rooted)
                       ELSE CleanElems(rest, Append(out, e), rooted)
             ELSE CleanElems(rest, Append(out, e), rooted)

\* the elements joined with "/" (strings.Join(elems, "/"))
RECURSIVE JoinElems(_)
JoinElems(elems) ==
    IF elems = <<>> THEN <<>>
    ELSE IF Len(elems) = 1 THEN elems[1]
    ELSE elems[1] \o Slash \o JoinElems(Tail(elems))

\* filepath.Clean
Clean(path) ==
    IF path = <<>> THEN Dot
    ELSE LET rooted == path[1] = "/"
             out == JoinElems(CleanElems(Split(path), <<>>, rooted))
         IN  IF rooted THEN Slash \o out
             ELSE IF out = <<>> THEN Dot ELSE out

\* filepath.Join("/", p): the non-empty arguments joined with "/" and cleaned
JoinRoot(p) == Clean(Slash \o Slash \o p)

\* filepath.Dir without its Clean
DirNoClean(path) == SubSeq(path, 1, LastSlash(path))

\* filepath.Dir: everything up to the last "/", cleaned
Dir(path) == Clean(SubSeq(path, 1, LastSlash(path)))

----------------------------------------------------------------------------
(* kytheuri and the serving protos *)

\* kytheuri.URI{Corpus, Root, Path}.String(): the ticket of a corpus, root
\* and path; distinct triples give distinct tickets and the path is kept
\* as given
URIString(corpus, root, path) == <<"kythe:", corpus, root, path>>

\* kytheuri.ToString(vname): the ticket of the VName's URI
kytheuriToString(file) == URIString(file.Corpus, file.Root, file.Path)

\* &srvpb.FileDirectory{}
EmptyDir == [FileTicket |-> <<>>, Subdirectory |-> <<>>]

\* a nil pointer, and a pointer to x
Nil == {}
Ptr(x) == {x}
Deref(p) == CHOOSE x \in p : TRUE

\* a map with no keys (make(map...)), and a nil error
EmptyMap == <<>>
NoErr == "nil"

\* the elements of a slice
Range(s) == {s[i] : i \in DOMAIN s}

----------------------------------------------------------------------------
(* Map *)

\* NewMap
NewMap == EmptyMap

\* addToSet without the membership test: str is always appended
addToSetAppend(strs, str) == Append(strs, str)

\* addToSet: strs itself when str is in it, str appended otherwise
addToSet(strs, str) ==
    IF \E i \in 1..Len(strs) : strs[i] = str THEN strs ELSE Append(strs, str)

\* ensureCorpusRoot that makes the corpus's map of roots anew when the root
\* is missing
ensureCorpusRootRemake(m, corpus, root) ==
    LET m1 == IF corpus \in DOMAIN m THEN m ELSE m @@ (corpus :> EmptyMap)
    IN  IF root \in DOMAIN m1[corpus] THEN m1
        ELSE [m1 EXCEPT ![corpus] = (root :> EmptyMap)]

\* ensureCorpusRoot: m with m[corpus] and m[corpus][root] made when missing
ensureCorpusRoot(m, corpus, root) ==
    LET m1 == IF corpus \in DOMAIN m THEN m ELSE m @@ (corpus :> EmptyMap)
    IN  IF root \in DOMAIN m1[corpus] THEN m1
        ELSE [m1 EXCEPT ![corpus] = @ @@ (root :> EmptyMap)]

\* dirs[path] = dir, in the dirs of (corpus, root)
SetDir(m, corpus, root, path, dir) ==
    [m EXCEPT ![corpus][root] = (path :> dir) @@ @]

\* ensureDir that makes the missing ancestors and links none of them
RECURSIVE ensureDirNoLink(_, _, _, _)
ensureDirNoLink(m, corpus, root, path) ==
    LET m1 == ensureCorpusRoot(m, corpus, root)
    IN  IF path \in DOMAIN m1[corpus][root] THEN m1
        ELSE LET m2 == SetDir(m1, corpus, root, path, EmptyDir)
             IN  IF path # Slash
                 THEN ensureDirNoLink(m2, corpus, root, Dir(path))
                 ELSE m2

\* ensureDir that gives the parent the ticket of the parent's own path
RECURSIVE ensureDirParentURI(_, _, _, _)
ensureDirParentURI(m, corpus, root, path) ==
    LET m1 == ensureCorpusRoot(m, corpus, root)
    IN  IF path \in DOMAIN m1[corpus][root] THEN m1
        ELSE LET m2 == SetDir(m1, corpus, root, path, EmptyDir)
             IN  IF path # Slash
                 THEN LET m3 == ensureDirParentURI(m2, corpus, root, Dir(path))
                          parent == m3[corpus][root][Dir(path)]
                      IN  SetDir(m3, corpus, root, Dir(path),
                                 [parent EXCEPT !.Subdirectory =
                                     addToSet(@, URIString(corpus, root, Dir(path)))])
                 ELSE m2

\* ensureDir without the test for "/": every record it makes is linked in
\* the record of its filepath.Dir
RECURSIVE ensureDirNoRootTest(_, _, _, _)
ensureDirNoRootTest(m, corpus, root, path) ==
    LET m1 == ensureCorpusRoot(m, corpus, root)
    IN  IF path \in DOMAIN m1[corpus][root] THEN m1
        ELSE LET m2 == SetDir(m1, corpus, root, path, EmptyDir)
                 m3 == ensureDirNoRootTest(m2, corpus, root, Dir(path))
                 parent == m3[corpus][root][Dir(path)]
             IN  SetDir(m3, corpus, root, Dir(path),
                        [parent EXCEPT !.Subdirectory =
                            addToSet(@, URIString(corpus, root, path))])

\* ensureDir without the test for an existing record: dirs[path] is made
\* anew on every call
RECURSIVE ensureDirAlwaysMake(_, _, _, _)
ensureDirAlwaysMake(m, corpus, root, path) ==
    LET m1 == ensureCorpusRoot(m, corpus, root)
        m2 == SetDir(m1, corpus, root, path, EmptyDir)
    IN  IF path # Slash
        THEN LET m3 == ensureDirAlwaysMake(m2, corpus, root, Dir(path))
                 parent == m3[corpus][root][Dir(path)]
             IN  SetDir(m3, corpus, root, Dir(path),
                        [parent EXCEPT !.Subdirectory =
                            addToSet(@, URIString(corpus, root, path))])
        ELSE m2

\* ensureDir: m with a record at (corpus, root, path); a record that had to
\* be made is made empty, and unless path is "/" its parent is ensured in
\* turn and gets the ticket of path in its Subdirectory
RECURSIVE ensureDir(_, _, _, _)
ensureDir(m, corpus, root, path) ==
    LET m1 == ensureCorpusRoot(m, corpus, root)
    IN  IF path \in DOMAIN m1[corpus][root] THEN m1
        ELSE LET m2 == SetDir(m1, corpus, root, path, EmptyDir)
             IN  IF path # Slash
                 THEN LET m3 == ensureDir(m2, corpus, root, Dir(path))
                          parent == m3[corpus][root][Dir(path)]
                      IN  SetDir(m3, corpus, root, Dir(path),
                                 [parent EXCEPT !.Subdirectory =
                                     addToSet(@, URIString(corpus, root, path))])
                 ELSE m2

\* AddFile that ensures a record at the file's own path, not at its
\* containing directory
AddFileEnsuresPath(m, file) ==
    LET ticket == kytheuriToString(file)
        path == JoinRoot(file.Path)
        m1 == ensureDir(m, file.Corpus, file.Root, path)
        dir == m1[file.Corpus][file.Root][Dir(path)]
    IN  SetDir(m1, file.Corpus, file.Root, Dir(path),
               [dir EXCEPT !.FileTicket = addToSet(@, ticket)])

\* AddFile that appends the ticket to FileTicket without addToSet
AddFileAppendTicket(m, file) ==
    LET ticket == kytheuriToString(file)
        path == JoinRoot(file.Path)
        m1 == ensureDir(m, file.Corpus, file.Root, Dir(path))
        dir == m1[file.Corpus][file.Root][Dir(path)]
    IN  SetDir(m1, file.Corpus, file.Root, Dir(path),
               [dir EXCEPT !.FileTicket = Append(@, ticket)])

\* Map.AddFile
AddFile(m, file) ==
    LET ticket == kytheuriToString(file)
        path == JoinRoot(file.Path)
        m1 == ensureDir(m, file.Corpus, file.Root, Dir(path))
        dir == m1[file.Corpus][file.Root][Dir(path)]
    IN  SetDir(m1, file.Corpus, file.Root, Dir(path),
               [dir EXCEPT !.FileTicket = addToSet(@, ticket)])

\* Map.Dir that reports a missing path as an error
MapDirNotFoundError(m, corpus, root, path) ==
    IF corpus \notin DOMAIN m THEN [dir |-> Nil, err |-> NoErr, m |-> m]
    ELSE IF root \notin DOMAIN m[corpus] THEN [dir |-> Nil, err |-> NoErr, m |-> m]
    ELSE IF path \notin DOMAIN m[corpus][root]
         THEN [dir |-> Nil, err |-> "not found", m |-> m]
    ELSE [dir |-> Ptr(m[corpus][root][path]), err |-> NoErr, m |-> m]

\* Map.Dir that gets dirs from ensureCorpusRoot, which makes the maps of a
\* corpus and root it does not find
MapDirEnsures(m, corpus, root, path) ==
    LET m1 == ensureCorpusRoot(m, corpus, root)
    IN  IF path \notin DOMAIN m1[corpus][root]
        THEN [dir |-> Nil, err |-> NoErr, m |-> m1]
        ELSE [dir |-> Ptr(m1[corpus][root][path]), err |-> NoErr, m |-> m1]

\* Map.Dir: the pointer and the error it returns, and m after the call
MapDir(m, corpus, root, path) ==
    IF corpus \notin DOMAIN m THEN [dir |-> Nil, err |-> NoErr, m |-> m]
    ELSE IF root \notin DOMAIN m[corpus] THEN [dir |-> Nil, err |-> NoErr, m |-> m]
    ELSE IF path \notin DOMAIN m[corpus][root]
         THEN [dir |-> Nil, err |-> NoErr, m |-> m]
    ELSE [dir |-> Ptr(m[corpus][root][path]), err |-> NoErr, m |-> m]

\* the orders a range over a map with key set S can visit the keys in
Orders(S) ==
    {s \in [1..Cardinality(S) -> S] : \A i, j \in DOMAIN s : s[i] = s[j] => i = j}

\* the concatenation of ro[oc[1]], ..., ro[oc[i]]
RECURSIVE RootsUpTo(_, _, _)
RootsUpTo(oc, ro, i) ==
    IF i = 0 THEN <<>> ELSE RootsUpTo(oc, ro, i - 1) \o ro[oc[i]]

\* Map.CorporaRoots with roots declared outside the loop over the corpora,
\* so that each entry also carries the roots of the corpora before it
MapCorporaRootsAccum(m) ==
    { [cr |-> Ptr([Corpus |-> [i \in 1..Len(oc) |->
                                 [Corpus |-> oc[i], Root |-> RootsUpTo(oc, ro, i)]]]),
       err |-> NoErr] :
        oc \in Orders(DOMAIN m),
        ro \in {f \in [DOMAIN m -> UNION {Orders(DOMAIN m[c]) : c \in DOMAIN m}] :
                   \A c \in DOMAIN m : f[c] \in Orders(DOMAIN m[c])} }

\* Map.CorporaRoots: the values it can return, one for every order the two
\* range loops can take; the error is always nil
MapCorporaRoots(m) ==
    { [cr |-> Ptr([Corpus |-> [i \in 1..Len(oc) |->
                                 [Corpus |-> oc[i], Root |-> ro[oc[i]]]]]),
       err |-> NoErr] :
        oc \in Orders(DOMAIN m),
        ro \in {f \in [DOMAIN m -> UNION {Orders(DOMAIN m[c]) : c \in DOMAIN m}] :
                   \A c \in DOMAIN m : f[c] \in Orders(DOMAIN m[c])} }

----------------------------------------------------------------------------
(* The web client and the HTTP handlers *)

StatusOK == 200
StatusBadRequest == 400
StatusInternalServerError == 500

\* &srvpb.CorpusRoots{}
EmptyCorpusRoots == [Corpus |-> <<>>]

\* a corpusPath as the JSON object its field tags give
MarshalCorpusPath(cp) ==
    [json |-> "object", corpus |-> cp.Corpus, root |-> cp.Root, path |-> cp.Path]

\* web.ReadJSONBody into a corpusPath: an error for a body that is no JSON
ReadJSONBody(body) ==
    IF body.json = "object"
    THEN [req |-> [Corpus |-> body.corpus, Root |-> body.root, Path |-> body.path],
          err |-> NoErr]
    ELSE [req |-> [Corpus |-> "", Root |-> "", Path |-> <<>>], err |-> "json"]

\* web.WriteResponse of a *FileDirectory: null for a nil pointer
WriteDirResponse(dir) ==
    IF dir = Nil THEN [json |-> "null"]
    ELSE [json |-> "object",
          file_ticket |-> Deref(dir).FileTicket,
          subdirectory |-> Deref(dir).Subdirectory]

\* web.WriteResponse of a *CorpusRoots
WriteCorpusRootsResponse(cr) ==
    IF cr = Nil THEN [json |-> "null"]
    ELSE [json |-> "object",
          corpus |-> [i \in 1..Len(Deref(cr).Corpus) |->
                         [corpus |-> Deref(cr).Corpus[i].Corpus,
                          root |-> Deref(cr).Corpus[i].Root]]]

\* the "/dir" handler without the test of web.ReadJSONBody's error: ft.Dir
\* is called with whatever was read
DirHandleNoParseTest(m, body, r, wfail) ==
    IF r.err # NoErr
    THEN [status |-> StatusInternalServerError,
          body |-> [json |-> "error", msg |-> r.err],
          ftCalls |-> 1, logged |-> FALSE, m |-> r.m]
    ELSE [status |-> StatusOK, body |-> WriteDirResponse(r.dir),
          ftCalls |-> 1, logged |-> wfail, m |-> r.m]

\* the "/dir" handler of RegisterHTTPHandlers on a request with this body,
\* r being what ft.Dir returns for the request read from it, wfail whether
\* web.WriteResponse fails, and m the index before the request: the status
\* and body of the response, the number of calls of ft.Dir, whether the
\* failed write was logged, and the index after the request
DirHandle(m, body, r, wfail) ==
    LET rd == ReadJSONBody(body)
    IN  IF rd.err # NoErr
        THEN [status |-> StatusBadRequest,
              body |-> [json |-> "error", msg |-> rd.err],
              ftCalls |-> 0, logged |-> FALSE, m |-> m]
        ELSE IF r.err # NoErr
        THEN [status |-> StatusInternalServerError,
              body |-> [json |-> "error", msg |-> r.err],
              ftCalls |-> 1, logged |-> FALSE, m |-> r.m]
        ELSE [status |-> StatusOK, body |-> WriteDirResponse(r.dir),
              ftCalls |-> 1, logged |-> wfail, m |-> r.m]

\* the "/dir" handler with ft the Map m and a response that is written
DirHandler(m, body) ==
    LET req == ReadJSONBody(body).req
    IN  DirHandle(m, body, MapDir(m, req.Corpus, req.Root, req.Path), FALSE)

\* the "/corpusRoots" handler of RegisterHTTPHandlers, once ft.CorporaRoots
\* returned r, wfail being whether web.WriteResponse fails
CorpusRootsHandle(r, wfail) ==
    IF r.err # NoErr
    THEN [status |-> StatusInternalServerError,
          body |-> [json |-> "error", msg |-> r.err],
          ftCalls |-> 1, logged |-> FALSE]
    ELSE [status |-> StatusOK, body |-> WriteCorpusRootsResponse(r.cr),
          ftCalls |-> 1, logged |-> wfail]

\* the "/corpusRoots" handler with a response that is written
CorpusRootsHandler(r) == CorpusRootsHandle(r, FALSE)

\* web.Call decoding a response into reply, a FileDirectory: the reply is
\* left as it was on a failed call, an error status and a null body
CallDir(resp, fail, reply) ==
    IF fail THEN [reply |-> reply, err |-> "transport"]
    ELSE IF resp.status # StatusOK THEN [reply |-> reply, err |-> "http"]
    ELSE IF resp.body.json = "null" THEN [reply |-> reply, err |-> NoErr]
    ELSE [reply |-> [FileTicket |-> resp.body.file_ticket,
                     Subdirectory |-> resp.body.subdirectory],
          err |-> NoErr]

\* web.Call decoding a response into reply, a CorpusRoots
CallCorpusRoots(resp, fail, reply) ==
    IF fail THEN [reply |-> reply, err |-> "transport"]
    ELSE IF resp.status # StatusOK THEN [reply |-> reply, err |-> "http"]
    ELSE IF resp.body.json = "null" THEN [reply |-> reply, err |-> NoErr]
    ELSE [reply |-> [Corpus |-> [i \in 1..Len(resp.body.corpus) |->
                                    [Corpus |-> resp.body.corpus[i].corpus,
                                     Root |-> resp.body.corpus[i].root]]],
          err |-> NoErr]

\* webClient.Dir that leaves Root out of the corpusPath it sends
webClientDirNoRoot(m, corpus, root, path, fail) ==
    LET resp == DirHandler(m, MarshalCorpusPath(
                    [Corpus |-> corpus, Root |-> "", Path |-> path]))
        c == CallDir(resp, fail, EmptyDir)
    IN  [dir |-> Ptr(c.reply), err |-> c.err, calls |-> 1,
         status |-> IF fail THEN 0 ELSE resp.status, m |-> resp.m]

\* webClient.Dir that calls again when the call failed and drops the error
\* of the second call
webClientDirRetry(m, corpus, root, path, fail) ==
    LET resp == DirHandler(m, MarshalCorpusPath(
                    [Corpus |-> corpus, Root |-> root, Path |-> path]))
        c == CallDir(resp, fail, EmptyDir)
    IN  [dir |-> Ptr(c.reply), err |-> NoErr, calls |-> IF fail THEN 2 ELSE 1,
         status |-> IF fail THEN 0 ELSE resp.status, m |-> resp.m]

\* webClient.Dir against a server whose handlers serve the Map m: the
\* address of reply, the error of web.Call, the number of calls of web.Call,
\* the status of the response (0 when none arrived), and the server's index
\* after the call
webClientDir(m, corpus, root, path, fail) ==
    LET resp == DirHandler(m, MarshalCorpusPath(
                    [Corpus |-> corpus, Root |-> root, Path |-> path]))
        c == CallDir(resp, fail, EmptyDir)
    IN  [dir |-> Ptr(c.reply), err |-> c.err, calls |-> 1,
         status |-> IF fail THEN 0 ELSE resp.status, m |-> resp.m]

\* webClient.CorporaRoots, the server's ft.CorporaRoots having returned r
webClientCorporaRoots(r, fail) ==
    LET resp == CorpusRootsHandler(r)
        c == CallCorpusRoots(resp, fail, EmptyCorpusRoots)
    IN  [cr |-> Ptr(c.reply), err |-> c.err, calls |-> 1,
         status |-> IF fail THEN 0 ELSE resp.status]

----------------------------------------------------------------------------
(* Populate *)

\* schema.NodeKindFact, schema.FileKind, and a fact name and a node kind
\* that are not them
NodeKindFact == "/kythe/node/kind"
FileKind == "file"
FactNames == {NodeKindFact, "/kythe/node/kind/x"}
FactValues == {FileKind, "anchor"}

\* the subjects of the entries a scan delivers
ScanSources == {f \in VNames : f.Corpus = "c1"}

\* spb.Entry, reduced to the fields Populate reads
Entries == [Source : ScanSources, FactName : FactNames, FactValue : FactValues]

\* the errors a failing gs.Scan returns
ScanErrors == {"graphstore: read failed", "graphstore: closed"}

\* the error Populate's callback returns to gs.Scan
CallbackReturn(entry) == NoErr

\* fmt.Errorf("failed to Scan GraphStore for directory structure: %v", e):
\* the message, with the text of e in it
Errorf(e) == <<"failed to Scan GraphStore for directory structure: ", e>>

\* Populate that logs the failure of the scan and returns nil
PopulateReturnNil(e) == NoErr

\* what Populate returns once gs.Scan has returned e
PopulateReturn(e) == IF e # NoErr THEN Errorf(e) ELSE NoErr

\* the callback's test without the comparison of the fact name
IsFileEntryAnyFact(entry) == entry.FactValue = FileKind

\* the test of Populate's callback
IsFileEntry(entry) ==
    entry.FactName = NodeKindFact /\ entry.FactValue = FileKind

----------------------------------------------------------------------------
(* The state machine *)

NoArg == [Corpus |-> "", Root |-> "", Path |-> <<>>]

\* no request served yet
NoRequest ==
    [handler |-> "none", parseErr |-> NoErr, ftErr |-> NoErr, wfail |-> FALSE,
     status |-> 0, msg |-> "", ftCalls |-> 0, logged |-> FALSE]

\* no AddFile under way
NoWalk ==
    [pc |-> "idle", file |-> NoArg, stack |-> <<>>, steps |-> 0, m0 |-> NewMap]

Init ==
    /\ M = NewMap
    /\ inserted = {}
    /\ nadds = 0
    /\ op = "NewMap"
    /\ arg = NoArg
    /\ dirRet = Nil
    /\ crRet = Nil
    /\ err = NoErr
    /\ calls = 0
    /\ status = 0
    /\ scanned = <<>>
    /\ total = 0
    /\ pc = "idle"
    /\ scanErr = NoErr
    /\ http = NoRequest
    /\ walk = NoWalk

\* m.AddFile(file)
DoAddFile(file) ==
    /\ nadds < MaxAdds
    /\ M' = AddFile(M, file)
    /\ inserted' = inserted \cup {file}
    /\ nadds' = nadds + 1
    /\ op' = "AddFile"
    /\ arg' = file
    /\ dirRet' = Nil
    /\ crRet' = Nil
    /\ err' = NoErr
    /\ calls' = 0
    /\ status' = 0
    /\ UNCHANGED <<scanned, total, pc, scanErr, http, walk>>

\* m.Dir(corpus, root, path)
DoDir(corpus, root, path) ==
    LET r == MapDir(M, corpus, root, path)
    IN  /\ op' = "Dir"
        /\ arg' = [Corpus |-> corpus, Root |-> root, Path |-> path]
        /\ M' = r.m
        /\ dirRet' = r.dir
        /\ crRet' = Nil
        /\ err' = r.err
        /\ calls' = 0
        /\ status' = 0
        /\ UNCHANGED <<inserted, nadds, scanned, total, pc, scanErr, http, walk>>

\* m.CorporaRoots()
DoCorporaRoots ==
    \E r \in MapCorporaRoots(M) :
        /\ op' = "CorporaRoots"
        /\ arg' = NoArg
        /\ dirRet' = Nil
        /\ crRet' = r.cr
        /\ err' = r.err
        /\ calls' = 0
        /\ status' = 0
        /\ UNCHANGED <<M, inserted, nadds, scanned, total, pc, scanErr, http, walk>>

\* WebClient(addr).Dir(corpus, root, path), addr serving m
DoWebDir(corpus, root, path, fail) ==
    LET r == webClientDir(M, corpus, root, path, fail)
    IN  /\ op' = "WebDir"
        /\ arg' = [Corpus |-> corpus, Root |-> root, Path |-> path]
        /\ M' = r.m
        /\ dirRet' = r.dir
        /\ crRet' = Nil
        /\ err' = r.err
        /\ calls' = r.calls
        /\ status' = r.status
        /\ UNCHANGED <<inserted, nadds, scanned, total, pc, scanErr, http, walk>>

\* WebClient(addr).CorporaRoots(), addr serving m
DoWebCorporaRoots(fail) ==
    \E sr \in MapCorporaRoots(M) :
        LET r == webClientCorporaRoots(sr, fail)
        IN  /\ op' = "WebCorporaRoots"
            /\ arg' = NoArg
            /\ dirRet' = Nil
            /\ crRet' = r.cr
            /\ err' = r.err
            /\ calls' = r.calls
            /\ status' = r.status
            /\ UNCHANGED <<M, inserted, nadds, scanned, total, pc, scanErr, http, walk>>

Next ==
    \/ \E file \in VNames : DoAddFile(file)
    \/ \E corpus \in Corpora, root \in Roots, path \in QueryPaths :
           DoDir(corpus, root, path)
    \/ DoCorporaRoots
    \/ \E corpus \in Corpora, root \in Roots, path \in QueryPaths,
          fail \in BOOLEAN : DoWebDir(corpus, root, path, fail)
    \/ \E fail \in BOOLEAN : DoWebCorporaRoots(fail)

Spec == Init /\ [][Next]_vars

\* m.Populate(gs) is called: gs.Scan starts
PopulateBegin ==
    /\ pc = "idle"
    /\ pc' = "scanning"
    /\ total' = 0
    /\ scanned' = <<>>
    /\ op' = "Populate"
    /\ UNCHANGED <<M, inserted, nadds, arg, dirRet, crRet, err, calls, status,
                   scanErr, http, walk>>

\* gs.Scan delivers entry to Populate's callback; an error of the callback
\* ends the scan with that error
ScanEntry(entry) ==
    /\ pc = "scanning"
    /\ Len(scanned) < MaxScan
    /\ scanned' = Append(scanned, entry)
    /\ IF IsFileEntry(entry)
       THEN /\ M' = AddFile(M, entry.Source)
            /\ inserted' = inserted \cup {entry.Source}
            /\ nadds' = nadds + 1
            /\ total' = total + 1
       ELSE UNCHANGED <<M, inserted, nadds, total>>
    /\ IF CallbackReturn(entry) # NoErr
       THEN /\ pc' = "failed"
            /\ scanErr' = CallbackReturn(entry)
            /\ err' = PopulateReturn(CallbackReturn(entry))
       ELSE UNCHANGED <<pc, scanErr, err>>
    /\ UNCHANGED <<op, arg, dirRet, crRet, calls, status, http, walk>>

\* gs.Scan returns e, and Populate returns
ScanReturn(e) ==
    /\ pc = "scanning"
    /\ pc' = IF e = NoErr THEN "done" ELSE "failed"
    /\ scanErr' = e
    /\ err' = PopulateReturn(e)
    /\ UNCHANGED <<M, inserted, nadds, op, arg, dirRet, crRet, calls, status,
                   scanned, total, http, walk>>

NextPopulate ==
    \/ PopulateBegin
    \/ \E entry \in Entries : ScanEntry(entry)
    \/ \E e \in {NoErr} \cup ScanErrors : ScanReturn(e)

SpecPopulate == Init /\ [][NextPopulate]_vars

----------------------------------------------------------------------------
(* The HTTP handlers, serving any Service *)

\* the errors ft.Dir and ft.CorporaRoots return: nil, as the Map always
\* does, and the error of a Service that fails
FtErrors == {NoErr, "filetree: unavailable"}

\* the bodies of the requests to "/dir": corpusPaths, and one that is no JSON
HandlerBodies ==
    {MarshalCorpusPath([Corpus |-> c, Root |-> "", Path |-> p]) :
        c \in Corpora, p \in {Slash, <<"/", "a">>}}
    \cup {[json |-> "malformed", corpus |-> "", root |-> "", path |-> <<>>]}

\* a request to "/dir" is served; ft is the Map when ftErr is nil and a
\* Service that fails with ftErr otherwise
ServeDir(body, ftErr, wfail) ==
    LET rd == ReadJSONBody(body)
        r == IF ftErr = NoErr
             THEN MapDir(M, rd.req.Corpus, rd.req.Root, rd.req.Path)
             ELSE [dir |-> Nil, err |-> ftErr, m |-> M]
        resp == DirHandle(M, body, r, wfail)
    IN  /\ http' = [handler |-> "dir", parseErr |-> rd.err, ftErr |-> ftErr,
                    wfail |-> wfail, status |-> resp.status,
                    msg |-> IF resp.body.json = "error" THEN resp.body.msg ELSE "",
                    ftCalls |-> resp.ftCalls, logged |-> resp.logged]
        /\ M' = resp.m
        /\ op' = "ServeDir"
        /\ arg' = rd.req
        /\ status' = resp.status
        /\ dirRet' = Nil
        /\ crRet' = Nil
        /\ err' = NoErr
        /\ calls' = 0
        /\ UNCHANGED <<inserted, nadds, scanned, total, pc, scanErr, walk>>

\* a request to "/corpusRoots" is served
ServeCorpusRoots(ftErr, wfail) ==
    \E r \in IF ftErr = NoErr THEN MapCorporaRoots(M)
             ELSE {[cr |-> Nil, err |-> ftErr]} :
        LET resp == CorpusRootsHandle(r, wfail)
        IN  /\ http' = [handler |-> "corpusRoots", parseErr |-> NoErr,
                        ftErr |-> ftErr, wfail |-> wfail, status |-> resp.status,
                        msg |-> IF resp.body.json = "error" THEN resp.body.msg
                                ELSE "",
                        ftCalls |-> resp.ftCalls, logged |-> resp.logged]
            /\ op' = "ServeCorpusRoots"
            /\ arg' = NoArg
            /\ status' = resp.status
            /\ dirRet' = Nil
            /\ crRet' = Nil
            /\ err' = NoErr
            /\ calls' = 0
            /\ UNCHANGED <<M, inserted, nadds, scanned, total, pc, scanErr, walk>>

NextHandler ==
    \/ \E file \in VNames : DoAddFile(file)
    \/ \E body \in HandlerBodies, ftErr \in FtErrors, wfail \in BOOLEAN :
           ServeDir(body, ftErr, wfail)
    \/ \E ftErr \in FtErrors, wfail \in BOOLEAN : ServeCorpusRoots(ftErr, wfail)

SpecHandler == Init /\ [][NextHandler]_vars

----------------------------------------------------------------------------
(* AddFile with ensureDir call by call *)

\* the longest file path of the walk, in elements
MaxElems == 3

\* the elements of the file paths of the walk: a name, ".", ".." and the
\* empty element of a doubled or leading "/"
WalkElems == {<<"a">>, Dot, DotDot, <<>>}

\* the sequences of at most n elements
RECURSIVE ElemSeqs(_)
ElemSeqs(n) ==
    IF n = 0 THEN {<<>>}
    ELSE LET shorter == ElemSeqs(n - 1)
         IN  shorter \cup
             {Append(es, e) : es \in {x \in shorter : Len(x) = n - 1},
                              e \in WalkElems}

\* the file paths of the walk
WalkPaths == {JoinElems(es) : es \in ElemSeqs(MaxElems)}

\* the files of the walk, and the files inserted before it
WalkFiles == [Corpus : {"c1"}, Root : Roots, Path : WalkPaths]
WalkSeeds == {f \in VNames : f.Corpus = "c1" /\ f.Root = ""}

\* AddFile is called: ticket and path are computed and ensureDir is called
\* with the containing directory
WalkBegin(file) ==
    /\ walk.pc = "idle"
    /\ nadds < MaxAdds
    /\ walk' = [pc |-> "call", file |-> file,
                stack |-> <<Dir(JoinRoot(file.Path))>>, steps |-> 0, m0 |-> M]
    /\ nadds' = nadds + 1
    /\ op' = "AddFile"
    /\ arg' = file
    /\ dirRet' = Nil
    /\ crRet' = Nil
    /\ err' = NoErr
    /\ calls' = 0
    /\ status' = 0
    /\ UNCHANGED <<M, inserted, scanned, total, pc, scanErr, http>>

\* the body of the innermost call of ensureDir up to its recursive call, or
\* to its return when there is none
WalkEnter ==
    /\ walk.pc = "call"
    /\ LET corpus == walk.file.Corpus
           root == walk.file.Root
           path == walk.stack[Len(walk.stack)]
           m1 == ensureCorpusRoot(M, corpus, root)
       IN  IF path \in DOMAIN m1[corpus][root]
           THEN /\ M' = m1
                /\ walk' = [walk EXCEPT !.pc = "return"]
           ELSE /\ M' = SetDir(m1, corpus, root, path, EmptyDir)
                /\ IF path # Slash
                   THEN walk' = [walk EXCEPT !.stack = Append(@, Dir(path)),
                                             !.steps = @ + 1]
                   ELSE walk' = [walk EXCEPT !.pc = "return"]
    /\ UNCHANGED <<inserted, nadds, op, arg, dirRet, crRet, err, calls, status,
                   scanned, total, pc, scanErr, http>>

\* the innermost call of ensureDir returns: its caller, when that is
\* ensureDir, links its own path into the returned parent and returns too;
\* when it is AddFile, it adds the ticket to the returned record
WalkReturn ==
    /\ walk.pc = "return"
    /\ LET corpus == walk.file.Corpus
           root == walk.file.Root
           n == Len(walk.stack)
           ret == M[corpus][root][walk.stack[n]]
       IN  IF n > 1
           THEN /\ M' = SetDir(M, corpus, root, walk.stack[n],
                           [ret EXCEPT !.Subdirectory =
                               addToSet(@, URIString(corpus, root,
                                                     walk.stack[n - 1]))])
                /\ walk' = [walk EXCEPT !.stack = SubSeq(@, 1, n - 1)]
                /\ UNCHANGED inserted
           ELSE /\ M' = SetDir(M, corpus, root, walk.stack[n],
                           [ret EXCEPT !.FileTicket =
                               addToSet(@, kytheuriToString(walk.file))])
                /\ walk' = [walk EXCEPT !.pc = "done"]
                /\ inserted' = inserted \cup {walk.file}
    /\ UNCHANGED <<nadds, op, arg, dirRet, crRet, err, calls, status,
                   scanned, total, pc, scanErr, http>>

\* files are inserted, then one AddFile is followed call by call
NextWalk ==
    \/ \E file \in WalkSeeds : walk.pc = "idle" /\ DoAddFile(file)
    \/ \E file \in WalkFiles : WalkBegin(file)
    \/ WalkEnter
    \/ WalkReturn

\* AddFile runs on one goroutine with nothing to wait for: a call that can
\* take its next step takes it
SpecWalk ==
    Init /\ [][NextWalk]_vars /\ WF_vars(WalkEnter) /\ WF_vars(WalkReturn)

----------------------------------------------------------------------------
(* Vocabulary of the properties *)

\* a record is stored at (corpus, root, path)
HasDir(corpus, root, path) ==
    /\ corpus \in DOMAIN M
    /\ root \in DOMAIN M[corpus]
    /\ path \in DOMAIN M[corpus][root]

\* the normalized containing directory of an inserted file
ContainingDir(file) == Dir(JoinRoot(file.Path))

\* directory d is p or lies below p (both rooted and clean)
IsUnder(d, p) ==
    \/ d = p
    \/ p = Slash
    \/ /\ Len(d) > Len(p)
       /\ SubSeq(d, 1, Len(p)) = p
       /\ d[Len(p) + 1] = "/"

\* the directory paths the properties range over: the paths Dir is asked
\* for, and every prefix of a normalized inserted path
DirUniverse ==
    QueryPaths \cup
    UNION {{SubSeq(JoinRoot(q), 1, k) : k \in 1..Len(JoinRoot(q))} : q \in Paths}

\* the files inserted under (corpus, root) whose containing directory is p
FilesIn(corpus, root, p) ==
    {f \in inserted : f.Corpus = corpus /\ f.Root = root /\ ContainingDir(f) = p}

\* the records of (corpus, root) whose parent directory is p; "/" has no
\* parent
ChildDirs(corpus, root, p) ==
    {q \in DOMAIN M[corpus][root] : q # Slash /\ Dir(q) = p}

----------------------------------------------------------------------------
(* Properties *)

\* C1: parent links. Every record stored at a path P other than "/" has a
\* record for filepath.Dir(P) under the same corpus and root, and that
\* record's Subdirectory holds the ticket of P; and the containing directory
\* of every inserted file has a record (so that, link by link, all its
\* ancestors up to "/" have one).
C1_ParentLink ==
    /\ \A c \in DOMAIN M : \A r \in DOMAIN M[c] : \A p \in DOMAIN M[c][r] :
           p # Slash =>
               /\ Dir(p) \in DOMAIN M[c][r]
               /\ URIString(c, r, p) \in Range(M[c][r][Dir(p)].Subdirectory)
    /\ \A f \in inserted :
           /\ HasDir(f.Corpus, f.Root, ContainingDir(f))
           /\ HasDir(f.Corpus, f.Root, Slash)

\* C1 witness: a file was inserted at /a/b/c, and /, /a and /a/b exist
C1_Witness ==
    \E f \in inserted :
        /\ JoinRoot(f.Path) = <<"/", "a", "/", "b", "/", "c">>
        /\ HasDir(f.Corpus, f.Root, <<"/", "a", "/", "b">>)
        /\ HasDir(f.Corpus, f.Root, <<"/", "a">>)
        /\ HasDir(f.Corpus, f.Root, Slash)

\* C2: Dir normalizes its path as AddFile does. Dir(corpus, root, p) returns
\* the record stored at filepath.Join("/", p), and nil when there is none.
C2_DirNormalizes ==
    op = "Dir" =>
        LET np == JoinRoot(arg.Path)
        IN  dirRet = IF HasDir(arg.Corpus, arg.Root, np)
                     THEN Ptr(M[arg.Corpus][arg.Root][np])
                     ELSE Nil

\* C3: existence. A record is stored at (corpus, root, P) exactly when some
\* inserted file of that corpus and root has its containing directory at P
\* or below P.
C3_Existence ==
    \A c \in Corpora \cup DOMAIN M :
        \A r \in Roots \cup (IF c \in DOMAIN M THEN DOMAIN M[c] ELSE {}) :
            \A p \in DirUniverse \cup
                     (IF c \in DOMAIN M /\ r \in DOMAIN M[c]
                      THEN DOMAIN M[c][r] ELSE {}) :
                HasDir(c, r, p) <=>
                    \E f \in inserted :
                        /\ f.Corpus = c
                        /\ f.Root = r
                        /\ IsUnder(ContainingDir(f), p)

\* C3 witness: under one corpus and root /a has a record and /a/b and /b,
\* under which nothing was inserted, have none
C3_Witness ==
    \E c \in Corpora, r \in Roots :
        /\ HasDir(c, r, <<"/", "a">>)
        /\ ~HasDir(c, r, <<"/", "a", "/", "b">>)
        /\ ~HasDir(c, r, <<"/", "b">>)

\* C4: every implementation of Service.Dir returns a nil FileDirectory and a
\* nil error when the directory is not found (for the web client: when the
\* call reached the server and the server's index has no such record).
C4_NotFoundIsNil ==
    /\ op \in {"Dir", "WebDir"}
    /\ err # "transport"
    /\ ~HasDir(arg.Corpus, arg.Root, arg.Path)
    => dirRet = Nil /\ err = NoErr

\* C5: Map.Dir never returns an error; it returns nil when the corpus is
\* unknown, when the root is unknown under the corpus, and when no record
\* is stored at the path, and the stored record otherwise.
C5_MapDirContract ==
    op = "Dir" =>
        /\ err = NoErr
        /\ arg.Corpus \notin DOMAIN M => dirRet = Nil
        /\ arg.Corpus \in DOMAIN M /\ arg.Root \notin DOMAIN M[arg.Corpus]
               => dirRet = Nil
        /\ arg.Corpus \in DOMAIN M /\ arg.Root \in DOMAIN M[arg.Corpus]
               /\ arg.Path \notin DOMAIN M[arg.Corpus][arg.Root]
               => dirRet = Nil
        /\ HasDir(arg.Corpus, arg.Root, arg.Path)
               => dirRet = Ptr(M[arg.Corpus][arg.Root][arg.Path])

\* C5 witness: Dir was asked for a known corpus with an unknown root
C5_Witness ==
    /\ op = "Dir"
    /\ arg.Corpus \in DOMAIN M
    /\ arg.Root \notin DOMAIN M[arg.Corpus]
    /\ dirRet = Nil

\* not-found as the web client represents it: an empty record for nil
AsRemote(dir) == IF dir = Nil THEN Ptr(EmptyDir) ELSE dir

\* C6: forwarding equivalence. When the transport does not fail, Dir through
\* the web client returns no error and the record Map.Dir returns on the
\* server's index, an empty record standing for nil; and CorporaRoots through
\* the web client returns no error and a value Map.CorporaRoots can return.
C6_ForwardingEquivalence ==
    /\ op = "WebDir" /\ err # "transport" =>
           /\ err = NoErr
           /\ dirRet = AsRemote(MapDir(M, arg.Corpus, arg.Root, arg.Path).dir)
    /\ op = "WebCorporaRoots" /\ err # "transport" =>
           [cr |-> crRet, err |-> err] \in MapCorporaRoots(M)

\* C6 witness: a directory with content was fetched through the web client
C6_Witness ==
    /\ op = "WebDir"
    /\ err = NoErr
    /\ HasDir(arg.Corpus, arg.Root, arg.Path)
    /\ dirRet # Ptr(EmptyDir)

\* C7: idempotence. From every reachable index and for every file f, a second
\* AddFile(f) right after the first leaves the index as the first left it.
C7_Idempotent ==
    \A f \in VNames : LET once == AddFile(M, f) IN AddFile(once, f) = once

\* C7 witness: the same file was inserted twice in a row
C7_Witness ==
    /\ op = "AddFile"
    /\ nadds = 2
    /\ inserted = {arg}
    /\ AddFile(M, arg) = M

\* C8: immediate children. The FileTicket of the record at (corpus, root, P)
\* holds exactly the tickets of the inserted files of that corpus and root
\* whose containing directory is P, and its Subdirectory exactly the tickets
\* of the records of that corpus and root whose parent directory is P.
C8_ImmediateChildren ==
    \A c \in DOMAIN M : \A r \in DOMAIN M[c] : \A p \in DOMAIN M[c][r] :
        /\ Range(M[c][r][p].FileTicket) =
               {kytheuriToString(f) : f \in FilesIn(c, r, p)}
        /\ Range(M[c][r][p].Subdirectory) =
               {URIString(c, r, q) : q \in ChildDirs(c, r, p)}

\* C8 witness: /a holds a file and the subdirectory /a/b, / holds only /a,
\* and another root of the same corpus has records of its own
C8_Witness ==
    \E c \in DOMAIN M : \E r \in DOMAIN M[c] :
        /\ HasDir(c, r, <<"/", "a", "/", "b">>)
        /\ Len(M[c][r][<<"/", "a">>].FileTicket) = 1
        /\ Len(M[c][r][<<"/", "a">>].Subdirectory) = 1
        /\ M[c][r][Slash].FileTicket = <<>>
        /\ Len(M[c][r][Slash].Subdirectory) = 1

\* C9: corpus and root discovery. CorporaRoots returns no error and one entry
\* for each corpus a file was inserted for and for no other, the entry's
\* roots being, each once, the roots a file of that corpus was inserted
\* under; on an empty index the result is empty.
C9_CorporaRoots ==
    op = "CorporaRoots" =>
        /\ err = NoErr
        /\ crRet # Nil
        /\ LET entries == Deref(crRet).Corpus
           IN  /\ {entries[i].Corpus : i \in DOMAIN entries} =
                      {f.Corpus : f \in inserted}
               /\ \A i, j \in DOMAIN entries :
                      entries[i].Corpus = entries[j].Corpus => i = j
               /\ \A i \in DOMAIN entries :
                      /\ Range(entries[i].Root) =
                             {f.Root : f \in {g \in inserted :
                                                g.Corpus = entries[i].Corpus}}
                      /\ \A k, l \in DOMAIN entries[i].Root :
                             entries[i].Root[k] = entries[i].Root[l] => k = l
               /\ inserted = {} => entries = <<>>

\* C9 witness: CorporaRoots reported two corpora with different roots
C9_Witness ==
    /\ op = "CorporaRoots"
    /\ crRet # Nil
    /\ Len(Deref(crRet).Corpus) = 2
    /\ Deref(crRet).Corpus[1].Root # Deref(crRet).Corpus[2].Root

\* the entries of a scan that Populate is to insert, in scan order
RECURSIVE FileEntries(_)
FileEntries(entries) ==
    IF entries = <<>> THEN <<>>
    ELSE IF Head(entries).FactName = NodeKindFact
            /\ Head(entries).FactValue = FileKind
         THEN <<Head(entries)>> \o FileEntries(Tail(entries))
         ELSE FileEntries(Tail(entries))

\* m after AddFile of the sources of entries, in order
RECURSIVE InsertAll(_, _)
InsertAll(m, entries) ==
    IF entries = <<>> THEN m
    ELSE InsertAll(AddFile(m, Head(entries).Source), Tail(entries))

\* C10: Populate's filter. While and after Populate scans, AddFile has been
\* called once for each delivered entry whose fact name is the node-kind fact
\* and whose value is the file kind, and for no other, and the index is the
\* one that inserting the sources of just those entries, in scan order, gives.
C10_PopulateFilter ==
    pc # "idle" =>
        /\ total = Len(FileEntries(scanned))
        /\ nadds = Len(FileEntries(scanned))
        /\ inserted = {e.Source : e \in Range(FileEntries(scanned))}
        /\ M = InsertAll(NewMap, FileEntries(scanned))

\* C10 witness: a finished scan delivered a file entry and another entry
C10_Witness ==
    /\ pc = "done"
    /\ Len(scanned) = 2
    /\ total = 1
    /\ M # NewMap

\* C11: Populate's failure. Populate returns an error exactly when gs.Scan
\* returned one, that error carries the scan's error and the scan's error is
\* the source's own (never one of the callback), and every file entry
\* delivered before Populate returned, failed or not, has its ticket in the
\* record of its containing directory.
C11_PopulateFailure ==
    pc \in {"done", "failed"} =>
        /\ err # NoErr <=> scanErr # NoErr
        /\ pc = "failed" <=> scanErr # NoErr
        /\ scanErr # NoErr =>
               /\ scanErr \in ScanErrors
               /\ Len(err) = 2
               /\ err[2] = scanErr
        /\ \A i \in 1..Len(scanned) :
               LET f == scanned[i].Source
               IN  scanned[i].FactName = NodeKindFact
                   /\ scanned[i].FactValue = FileKind
                   => /\ HasDir(f.Corpus, f.Root, ContainingDir(f))
                      /\ kytheuriToString(f) \in
                           Range(M[f.Corpus][f.Root][ContainingDir(f)].FileTicket)

\* C11 witness: the scan failed after a file had been inserted
C11_Witness ==
    /\ pc = "failed"
    /\ total = 1
    /\ Len(scanned) = 2
    /\ M # NewMap
    /\ err # NoErr

\* C12: root stability. Every corpus and root the index holds has a record
\* at "/", so "/" has one as soon as a file of that corpus and root is
\* inserted; and the ticket of "/", of any corpus and root, is in no
\* record's Subdirectory.
C12_RootStability ==
    /\ \A c \in DOMAIN M : \A r \in DOMAIN M[c] : Slash \in DOMAIN M[c][r]
    /\ \A f \in inserted :
           /\ f.Corpus \in DOMAIN M
           /\ f.Root \in DOMAIN M[f.Corpus]
    /\ \A c \in DOMAIN M : \A r \in DOMAIN M[c] : \A p \in DOMAIN M[c][r] :
           \A c2 \in Corpora \cup DOMAIN M : \A r2 \in Roots \cup DOMAIN M[c] :
               URIString(c2, r2, Slash) \notin Range(M[c][r][p].Subdirectory)

\* C12 witness: a file inserted right in "/" made the record of "/", which
\* lists no directory
C12_Witness ==
    /\ op = "AddFile"
    /\ ContainingDir(arg) = Slash
    /\ HasDir(arg.Corpus, arg.Root, Slash)
    /\ M[arg.Corpus][arg.Root][Slash].Subdirectory = <<>>

C14_TransportFailure ==
    op \in {"WebDir", "WebCorporaRoots"} =>
        /\ calls = 1
        /\ status = 0 => err # NoErr
        /\ err = NoErr => status = StatusOK

\* C14 witness: a call of the web client's Dir failed
C14_Witness ==
    /\ op = "WebDir"
    /\ status = 0
    /\ err = "transport"
    /\ calls = 1

\* C15: the handlers' error mapping. A "/dir" request whose body cannot be
\* read is answered 400 and ft.Dir is not called; a request to either handler
\* is answered 500 exactly when the call of ft returned an error, and the
\* response then carries that error's text; and when web.WriteResponse fails
\* the failure is logged and the status stays the one of the written
\* response.
C15_HandlerErrors ==
    http.handler # "none" =>
        /\ http.parseErr # NoErr =>
               http.status = StatusBadRequest /\ http.ftCalls = 0
        /\ http.parseErr = NoErr => http.ftCalls = 1
        /\ http.status = StatusInternalServerError <=>
               http.ftCalls = 1 /\ http.ftErr # NoErr
        /\ http.status = StatusInternalServerError => http.msg = http.ftErr
        /\ http.wfail /\ http.parseErr = NoErr /\ http.ftErr = NoErr =>
               http.logged /\ http.status = StatusOK
        /\ http.logged => http.wfail /\ http.status = StatusOK
        /\ http.status \in
               {StatusOK, StatusBadRequest, StatusInternalServerError}

\* C15 witness: a "/dir" request with a body that is no JSON was answered 400
C15_Witness ==
    /\ http.handler = "dir"
    /\ http.parseErr # NoErr
    /\ http.ftErr # NoErr
    /\ http.status = StatusBadRequest
    /\ http.ftCalls = 0

\* a sequence in which no element occurs twice
NoDuplicates(strs) ==
    \A i, j \in 1..Len(strs) : strs[i] = strs[j] => i = j

\* C16: no duplicates. In every reachable index, no record's FileTicket and
\* no record's Subdirectory holds the same string twice.
C16_NoDuplicates ==
    \A c \in DOMAIN M : \A r \in DOMAIN M[c] : \A p \in DOMAIN M[c][r] :
        /\ NoDuplicates(M[c][r][p].FileTicket)
        /\ NoDuplicates(M[c][r][p].Subdirectory)

\* C16 witness: two files of one corpus and root were inserted, one in "/a"
\* and one in "/a/b", so that the second insertion went through the record
\* and the links that the first had made
C16_Witness ==
    /\ op = "AddFile"
    /\ nadds = 2
    /\ HasDir(arg.Corpus, arg.Root, <<"/", "a", "/", "b">>)
    /\ M[arg.Corpus][arg.Root][<<"/", "a">>].FileTicket # <<>>
    /\ M[arg.Corpus][arg.Root][<<"/", "a", "/", "b">>].FileTicket # <<>>
    /\ Len(M[arg.Corpus][arg.Root][Slash].Subdirectory) = 1

\* the number of components of a rooted clean path: none for "/"
Components(path) ==
    IF path = Slash THEN 0
    ELSE Cardinality({i \in 1..Len(path) : path[i] = "/"})

\* C17: ancestor creation terminates. While AddFile runs, ensureDir has
\* called itself at most as many times as the containing directory has
\* components, each call with the parent of its caller's path, which is
\* strictly shorter; the parent of "/" is "/"; the innermost call is on "/"
\* or on a record that existed when it returned without calling; and every
\* AddFile that began ends, with the index AddFile computes.
C17_Terminates ==
    /\ [](walk.pc # "idle" =>
            /\ walk.steps <= Components(ContainingDir(walk.file))
            /\ Len(walk.stack) <= walk.steps + 1
            /\ \A i \in 1..(Len(walk.stack) - 1) :
                   /\ walk.stack[i + 1] = Dir(walk.stack[i])
                   /\ Len(walk.stack[i + 1]) < Len(walk.stack[i])
            /\ Dir(Slash) = Slash
            /\ walk.pc = "done" => M = AddFile(walk.m0, walk.file))
    /\ (walk.pc = "call" ~> walk.pc = "done")

\* C17 witness: an AddFile ended whose ensureDir went up two parents, from a
\* containing directory of two components
C17_Witness ==
    /\ walk.pc = "done"
    /\ walk.steps = 2
    /\ Components(ContainingDir(walk.file)) = 2
    /\ walk.m0 # NewMap

\* an index with every record's FileTicket and Subdirectory as sets
AsSets(m) ==
    [c \in DOMAIN m |->
        [r \in DOMAIN m[c] |->
            [p \in DOMAIN m[c][r] |->
                [files |-> Range(m[c][r][p].FileTicket),
                 subdirectories |-> Range(m[c][r][p].Subdirectory)]]]]

\* the files of a set inserted into an empty index, in one fixed order and
\* each once
RECURSIVE InsertSet(_)
InsertSet(files) ==
    IF files = {} THEN NewMap
    ELSE LET f == CHOOSE x \in files : TRUE
         IN  AddFile(InsertSet(files \ {f}), f)

\* C18: insertion order independence. The index reached by any sequence of
\* AddFile calls is, records compared as sets, the index reached by
\* inserting the set of the files of the sequence in one fixed order, each
\* once: neither the order nor the repetitions of the sequence show.
C18_OrderIndependence ==
    AsSets(M) = AsSets(InsertSet(inserted))

\* C18 witness: two files were inserted in the order that leaves an index
\* other than the one of the fixed order, the same as sets
C18_Witness ==
    /\ op = "AddFile"
    /\ nadds = 2
    /\ Cardinality(inserted) = 2
    /\ M # InsertSet(inserted)

\* every record of m is a record of n, and holds in n every ticket it holds
\* in m
Within(m, n) ==
    \A c \in DOMAIN m :
        /\ c \in DOMAIN n
        /\ \A r \in DOMAIN m[c] :
               /\ r \in DOMAIN n[c]
               /\ \A p \in DOMAIN m[c][r] :
                      /\ p \in DOMAIN n[c][r]
                      /\ Range(m[c][r][p].FileTicket) \subseteq
                             Range(n[c][r][p].FileTicket)
                      /\ Range(m[c][r][p].Subdirectory) \subseteq
                             Range(n[c][r][p].Subdirectory)

\* n differs from m only in the records of (file.Corpus, file.Root) at the
\* file's containing directory and its ancestors, and has no other (corpus,
\* root) pair than m's and the file's
FrameOf(m, n, file) ==
    \A c \in DOMAIN n : \A r \in DOMAIN n[c] :
        IF c = file.Corpus /\ r = file.Root
        THEN \A p \in DOMAIN n[c][r] :
                 ~IsUnder(ContainingDir(file), p) =>
                     /\ c \in DOMAIN m
                     /\ r \in DOMAIN m[c]
                     /\ p \in DOMAIN m[c][r]
                     /\ n[c][r][p] = m[c][r][p]
        ELSE /\ c \in DOMAIN m
             /\ r \in DOMAIN m[c]
             /\ n[c][r] = m[c][r]

\* C19: insertion frame and monotonicity. No step removes a record or a
\* ticket of a record, and only an AddFile changes the index; and an
\* AddFile of a file leaves the records of every
\* other (corpus, root) pair as they were and changes, under the file's own
\* pair, only the records of its containing directory and of that
\* directory's ancestors.
C19_FrameMonotone ==
    [][M' # M =>
          /\ Within(M, M')
          /\ nadds' = nadds + 1
          /\ FrameOf(M, M', arg')]_vars

\* C19 witness: a file was inserted, into a directory other than "/", after
\* a file of the same corpus and another root
C19_Witness ==
    /\ op = "AddFile"
    /\ nadds = 2
    /\ \E f \in inserted : f.Corpus = arg.Corpus /\ f.Root # arg.Root
    /\ HasDir(arg.Corpus, arg.Root, ContainingDir(arg))
    /\ ContainingDir(arg) # Slash

====
